---- MODULE Spec2Model ----
(***************************************************************************)
(* Model of docuum's state persistence (src/state.rs): the State schema,   *)
(* path(), load() and save(), over a file system that holds the ancestor   *)
(* directories of the state file and the content of the state file.        *)
(*                                                                         *)
(* The content of the file is a sequence of YAML lines.  A State is kept   *)
(* as the sequence of its (key, duration) entries in the iteration order   *)
(* of its HashMap; two States are equal when their maps (Images) are.      *)
(***************************************************************************)
EXTENDS Integers, Sequences, FiniteSets, TLC

\* ---------------------------------------------------------------- bounds
\* Largest number of whole seconds of a last-use time held in memory.
MaxSecs == 1
\* Number of ancestor directories of state.yml that may be missing
\* (the local data directory, ..., its docuum subdirectory).
Depth == 2

\* Nanoseconds per second: Duration keeps subsec nanos below it.
NANOS_PER_SEC == 1000000000

\* Image IDs.
Keys == {"a", "b"}

\* The processes: 1 and 2 save, 3 is a reader.
Procs == {1, 2, 3}

\* ------------------------------------------------------- the State schema
\* Duration: <<secs, subsec nanos>>, nanos below NANOS_PER_SEC.
Durations ==
  {<<s, 0>> : s \in 0..MaxSecs} \cup {<<0, NANOS_PER_SEC - 1>>}

\* Duration::new(secs, nanos): nanos of a second or more carry into secs.
DurationNew(secs, nanos) ==
  <<secs + (nanos \div NANOS_PER_SEC), nanos % NANOS_PER_SEC>>

Entry(k, d) == [k |-> k, d |-> d]

\* State values: entries with distinct keys, in HashMap iteration order.
State ==
  {<<>>}
  \cup {<<Entry(k, d)>> : k \in Keys, d \in Durations}
  \cup {<<Entry(k1, d1), Entry(k2, d2)>> :
          <<k1, k2>> \in {kk \in Keys \X Keys : kk[1] # kk[2]},
          <<d1, d2>> \in Durations \X Durations}

\* The images map of a State.
Images(s) ==
  [k \in {s[i].k : i \in DOMAIN s} |->
     s[CHOOSE i \in DOMAIN s : s[i].k = k].d]

EmptyMap == [k \in {} |-> <<0, 0>>]

\* initial(): the State the program starts in when none was loaded.
initial == <<>>

\* ------------------------------------------------------------ YAML lines
\* One line of the state file: its form t, and the key or number on it.
Line(t, k, n) == [t |-> t, k |-> k, n |-> n]
ImagesBlock == Line("images:", "", 0)        \* images: then a block of entries
ImagesEmpty == Line("images: {}", "", 0)     \* images: {}
ImagesScalar == Line("images: 5", "", 5)     \* images with a value that is no map
OtherField == Line("other: 1", "", 1)        \* a top-level field State does not have
KeyLine(k) == Line("key:", k, 0)             \*   <k>:
SecsLine(n) == Line("secs:", "", n)          \*     secs: <n>
NanosLine(n) == Line("nanos:", "", n)        \*     nanos: <n>
Hole == Line("hole", "", 0)                  \* bytes never written (NUL)

\* serde_yaml::to_string(state): the derived Serialize of State writes the one
\* field images, a map, each Duration as the struct {secs, nanos}.
RECURSIVE EntriesYaml(_)
EntriesYaml(s) ==
  IF s = <<>> THEN <<>>
  ELSE <<KeyLine(s[1].k), SecsLine(s[1].d[1]), NanosLine(s[1].d[2])>>
       \o EntriesYaml(Tail(s))

to_string(s) ==
  IF s = <<>> THEN <<ImagesEmpty>> ELSE <<ImagesBlock>> \o EntriesYaml(s)

\* serde_yaml::from_str::<State>(yaml): the derived Deserialize of State with
\* deny_unknown_fields, of HashMap<String, Duration> and of Duration.
Put(m, k, d) == [x \in DOMAIN m \cup {k} |-> IF x = k THEN d ELSE m[x]]

RECURSIVE ParseDuration(_, _, _, _)
ParseDuration(c, i, secs, nanos) ==
  IF i <= Len(c) /\ c[i].t = "secs:"
  THEN IF secs # -1
       THEN [ok |-> FALSE, next |-> i, d |-> <<0, 0>>]     \* duplicate field
       ELSE ParseDuration(c, i + 1, c[i].n, nanos)
  ELSE IF i <= Len(c) /\ c[i].t = "nanos:"
  THEN IF nanos # -1
       THEN [ok |-> FALSE, next |-> i, d |-> <<0, 0>>]     \* duplicate field
       ELSE ParseDuration(c, i + 1, secs, c[i].n)
  ELSE IF secs = -1 \/ nanos = -1
       THEN [ok |-> FALSE, next |-> i, d |-> <<0, 0>>]     \* missing field
       ELSE [ok |-> TRUE, next |-> i, d |-> DurationNew(secs, nanos)]

RECURSIVE ParseImages(_, _, _)
ParseImages(c, i, m) ==
  IF i <= Len(c) /\ c[i].t = "key:"
  THEN LET r == ParseDuration(c, i + 1, -1, -1)
       IN IF r.ok THEN ParseImages(c, r.next, Put(m, c[i].k, r.d))
          ELSE [ok |-> FALSE, next |-> i, m |-> EmptyMap]
  ELSE [ok |-> TRUE, next |-> i, m |-> m]

\* ParseState as it would be without #[serde(deny_unknown_fields)]: a field
\* State does not have is skipped.
RECURSIVE ParseStateLax(_, _, _, _)
ParseStateLax(c, i, seen, m) ==
  IF i > Len(c)
  THEN [ok |-> seen, m |-> IF seen THEN m ELSE EmptyMap]
  ELSE IF c[i] = OtherField
  THEN ParseStateLax(c, i + 1, seen, m)
  ELSE IF seen
  THEN [ok |-> FALSE, m |-> EmptyMap]
  ELSE IF c[i].t = "images: {}"
  THEN ParseStateLax(c, i + 1, TRUE, EmptyMap)
  ELSE IF c[i].t = "images:" /\ i < Len(c) /\ c[i + 1].t = "key:"
  THEN LET r == ParseImages(c, i + 1, EmptyMap)
       IN IF r.ok THEN ParseStateLax(c, r.next, TRUE, r.m)
          ELSE [ok |-> FALSE, m |-> EmptyMap]
  ELSE [ok |-> FALSE, m |-> EmptyMap]

RECURSIVE ParseState(_, _, _, _)
ParseState(c, i, seen, m) ==
  IF i > Len(c)
  THEN [ok |-> seen, m |-> IF seen THEN m ELSE EmptyMap]   \* missing field images
  ELSE IF seen
  THEN [ok |-> FALSE, m |-> EmptyMap]      \* duplicate or unknown field
  ELSE IF c[i].t = "images: {}"
  THEN ParseState(c, i + 1, TRUE, EmptyMap)
  ELSE IF c[i].t = "images:" /\ i < Len(c) /\ c[i + 1].t = "key:"
  THEN LET r == ParseImages(c, i + 1, EmptyMap)
       IN IF r.ok THEN ParseState(c, r.next, TRUE, r.m)
          ELSE [ok |-> FALSE, m |-> EmptyMap]
  ELSE [ok |-> FALSE, m |-> EmptyMap]      \* unknown field, wrong shape, bad YAML

\* The values load() and save() return: io::Result.
Ok(images) == [tag |-> "Ok", kind |-> "", cause |-> "", images |-> images]
Err(kind, cause) ==
  [tag |-> "Err", kind |-> kind, cause |-> cause, images |-> EmptyMap]
NoResult == [tag |-> "None", kind |-> "", cause |-> "", images |-> EmptyMap]

\* from_str as it would be if load() fell back to the initial State on a
\* validation error instead of returning it.
from_str_or_initial(yaml) ==
  LET r == ParseState(yaml, 1, FALSE, EmptyMap)
  IN IF r.ok THEN Ok(r.m) ELSE Ok(Images(initial))

\* from_str(&yaml).map_err(|error| io::Error::new(io::ErrorKind::Other, error))
from_str(yaml) ==
  LET r == ParseState(yaml, 1, FALSE, EmptyMap)
  IN IF r.ok THEN Ok(r.m) ELSE Err("Other", "schema")

\* ------------------------------------------------------------- the state
VARIABLES
  data_local_dir, \* whether dirs::data_local_dir() yields a directory
  dirs,           \* how many of the Depth ancestor directories of state.yml exist
  exists,         \* whether state.yml exists
  content,        \* the lines of state.yml (<<>> when it does not exist)
  pc,             \* per process: where it is in load() or save()
  op,             \* per process: the call it is in, or made last
  arg,            \* per process: the State passed to save()
  payload,        \* per process: save()'s serialized payload
  off,            \* per process: the file offset of save()'s open file
  yaml,           \* per process: the text load() read
  ret,            \* per process: what the last call returned
  pre,            \* per process: the file system when the call began
  prev,           \* per process: the State the call before this one saved, if it
                  \* was a save() that returned Ok
  fault,          \* per process: the failure the environment raised in this call
  trace,          \* per process: the steps of this call, in order
  fin,            \* the processes whose write() completed, in the order of their
                  \* latest completion
  after           \* per process: the writers that had completed when it opened the file

vars ==
  <<data_local_dir, dirs, exists, content, pc, op, arg, payload, off, yaml,
    ret, pre, prev, fault, trace, fin, after>>

\* Contents state.yml may hold that no save() of this program wrote.
ForeignFiles ==
  { <<>>,
    <<OtherField>>,
    <<ImagesEmpty, OtherField>>,
    <<OtherField, ImagesBlock, KeyLine("a"), SecsLine(1), NanosLine(0)>>,
    <<ImagesScalar>>,
    <<ImagesBlock>>,
    <<ImagesBlock, KeyLine("a"), SecsLine(1)>>,
    <<ImagesBlock, KeyLine("a"), NanosLine(NANOS_PER_SEC), SecsLine(0)>> }

InitFiles == ForeignFiles \cup {to_string(s) : s \in {t \in State : Len(t) <= 1}}

Init ==
  /\ data_local_dir \in BOOLEAN
  /\ dirs \in 0..Depth
  /\ exists \in BOOLEAN
  /\ exists => dirs = Depth
  /\ content \in InitFiles
  /\ ~exists => content = <<>>
  /\ pc = [p \in Procs |-> "idle"]
  /\ op = [p \in Procs |-> "none"]
  /\ arg = [p \in Procs |-> <<>>]
  /\ payload = [p \in Procs |-> <<>>]
  /\ off = [p \in Procs |-> 0]
  /\ yaml = [p \in Procs |-> <<>>]
  /\ ret = [p \in Procs |-> NoResult]
  /\ pre = [p \in Procs |-> [dirs |-> 0, exists |-> FALSE, content |-> <<>>]]
  /\ prev = [p \in Procs |-> [saved |-> FALSE, arg |-> <<>>]]
  /\ fault = [p \in Procs |-> "none"]
  /\ trace = [p \in Procs |-> <<>>]
  /\ fin = <<>>
  /\ after = [p \in Procs |-> {}]

\* path() as it would be with a fallback directory in place of None.
path_or_default == "Some"

\* ---------------------------------------------------------------- path()
\* dirs::data_local_dir().map(|path| path.join("docuum/state.yml"))
path == IF data_local_dir THEN "Some" ELSE "None"

\* A call begins: what the file system held and which call came before.
Begin(p, o, s) ==
  /\ pc[p] \in {"idle", "done"}
  /\ op' = [op EXCEPT ![p] = o]
  /\ arg' = [arg EXCEPT ![p] = s]
  /\ pre' = [pre EXCEPT ![p] = [dirs |-> dirs, exists |-> exists, content |-> content]]
  /\ prev' = [prev EXCEPT ![p] =
                IF pc[p] = "done" /\ op[p] = "save" /\ ret[p].tag = "Ok"
                THEN [saved |-> TRUE, arg |-> arg[p]]
                ELSE [saved |-> FALSE, arg |-> <<>>]]

\* The call returns r to its caller.
Return(p, r) ==
  /\ pc' = [pc EXCEPT ![p] = "done"]
  /\ ret' = [ret EXCEPT ![p] = r]

\* LoadResult as it would be if load() wrapped the error of read_to_string in
\* io::ErrorKind::Other, as it does the error of from_str.
LoadResultWrapped(found, text) ==
  IF path = "None" THEN Err("Other", "location")
  ELSE IF ~found THEN Err("Other", "read_to_string")
  ELSE from_str(text)

\* ---------------------------------------------------------------- load()
\* What load() returns when read_to_string raises no error of the environment.
LoadResult(found, text) ==
  IF path = "None" THEN Err("Other", "location")
  ELSE IF ~found THEN Err("NotFound", "read_to_string")
  ELSE from_str(text)

load(p) ==
  /\ Begin(p, "load", <<>>)
  /\ Return(p, LoadResult(exists, content))
  /\ yaml' = [yaml EXCEPT ![p] = IF path = "Some" /\ exists THEN content ELSE <<>>]
  /\ trace' = [trace EXCEPT ![p] =
                 IF path = "None" THEN <<"path">>
                 ELSE IF ~exists THEN <<"path", "read_to_string">>
                 ELSE <<"path", "read_to_string", "from_str">>]
  /\ fault' = [fault EXCEPT ![p] = "none"]
  /\ payload' = [payload EXCEPT ![p] = <<>>]
  /\ off' = [off EXCEPT ![p] = 0]
  /\ UNCHANGED <<data_local_dir, dirs, exists, content, fin, after>>

\* read_to_string(path)? fails for a reason other than the file's absence.
load_read_fails(p) ==
  /\ path = "Some"
  /\ Begin(p, "load", <<>>)
  /\ Return(p, Err("PermissionDenied", "read_to_string"))
  /\ yaml' = [yaml EXCEPT ![p] = <<>>]
  /\ trace' = [trace EXCEPT ![p] = <<"path", "read_to_string">>]
  /\ fault' = [fault EXCEPT ![p] = "read_to_string"]
  /\ payload' = [payload EXCEPT ![p] = <<>>]
  /\ off' = [off EXCEPT ![p] = 0]
  /\ UNCHANGED <<data_local_dir, dirs, exists, content, fin, after>>

\* ---------------------------------------------------------------- save()
\* path(), then serde_yaml::to_string(state).unwrap()
save(p, s) ==
  /\ Begin(p, "save", s)
  /\ fault' = [fault EXCEPT ![p] = "none"]
  /\ off' = [off EXCEPT ![p] = 0]
  /\ IF path = "None"
     THEN /\ Return(p, Err("Other", "location"))
          /\ trace' = [trace EXCEPT ![p] = <<"path">>]
          /\ payload' = [payload EXCEPT ![p] = <<>>]
     ELSE /\ pc' = [pc EXCEPT ![p] = "create_dir_all"]
          /\ ret' = [ret EXCEPT ![p] = NoResult]
          /\ trace' = [trace EXCEPT ![p] = <<"path", "to_string">>]
          /\ payload' = [payload EXCEPT ![p] = to_string(s)]
  /\ yaml' = [yaml EXCEPT ![p] = <<>>]
  /\ UNCHANGED <<data_local_dir, dirs, exists, content, fin, after>>

\* to_string returns an error: unwrap() panics.
save_to_string_fails(p, s) ==
  /\ path = "Some"
  /\ Begin(p, "save", s)
  /\ pc' = [pc EXCEPT ![p] = "panicked"]
  /\ ret' = [ret EXCEPT ![p] = NoResult]
  /\ fault' = [fault EXCEPT ![p] = "to_string"]
  /\ trace' = [trace EXCEPT ![p] = <<"path", "to_string">>]
  /\ payload' = [payload EXCEPT ![p] = <<>>]
  /\ off' = [off EXCEPT ![p] = 0]
  /\ yaml' = [yaml EXCEPT ![p] = <<>>]
  /\ UNCHANGED <<data_local_dir, dirs, exists, content, fin, after>>

\* CreateDirAll as it would be with create_dir in place of create_dir_all:
\* only the last directory is created, and only under an existing parent.
CreateDirOnly(d) ==
  IF d >= Depth - 1 THEN [err |-> "", dirs |-> Depth]
  ELSE [err |-> "NotFound", dirs |-> d]

\* create_dir_all(parent) with every directory creatable: the directories
\* that exist afterwards, and the error, if any.
CreateDirAll(d) == [err |-> "", dirs |-> Depth]

create_dir_all(p) ==
  /\ pc[p] = "create_dir_all"
  /\ LET r == CreateDirAll(dirs)
     IN /\ dirs' = r.dirs
        /\ IF r.err = ""
           THEN /\ pc' = [pc EXCEPT ![p] = "File::create"]
                /\ ret' = ret
           ELSE Return(p, Err(r.err, "create_dir_all"))
  /\ trace' = [trace EXCEPT ![p] = Append(@, "create_dir_all")]
  /\ UNCHANGED <<data_local_dir, exists, content, op, arg, payload, off, yaml,
                 pre, prev, fault, fin, after>>

\* create_dir_all_fails as it would be if save() dropped the error of
\* create_dir_all and went on to write.
create_dir_all_fails_ignored(p, j) ==
  /\ pc[p] = "create_dir_all"
  /\ dirs <= j
  /\ j < Depth \/ dirs = Depth
  /\ dirs' = j
  /\ pc' = [pc EXCEPT ![p] = "File::create"]
  /\ fault' = [fault EXCEPT ![p] = "create_dir_all"]
  /\ trace' = [trace EXCEPT ![p] = Append(@, "create_dir_all")]
  /\ UNCHANGED <<data_local_dir, exists, content, op, arg, payload, off, yaml,
                 ret, pre, prev, fin, after>>

\* create_dir_all(parent)? fails: at the missing directory j + 1, having
\* created those above it, or (j = Depth) on directories that all exist but
\* cannot be searched.
create_dir_all_fails(p, j) ==
  /\ pc[p] = "create_dir_all"
  /\ dirs <= j
  /\ j < Depth \/ dirs = Depth
  /\ dirs' = j
  /\ Return(p, Err("PermissionDenied", "create_dir_all"))
  /\ fault' = [fault EXCEPT ![p] = "create_dir_all"]
  /\ trace' = [trace EXCEPT ![p] = Append(@, "create_dir_all")]
  /\ UNCHANGED <<data_local_dir, exists, content, op, arg, payload, off, yaml,
                 pre, prev, fin, after>>

\* file_create as it would be if the file were opened without truncation.
file_create_no_truncate(p) ==
  /\ pc[p] = "File::create"
  /\ exists' = TRUE
  /\ content' = content
  /\ off' = [off EXCEPT ![p] = 0]
  /\ pc' = [pc EXCEPT ![p] = "write_all"]
  /\ after' = [after EXCEPT ![p] = {q \in Procs \ {p} : pc[q] = "done" /\ op[q] = "save"
                                                        /\ ret[q].tag = "Ok"}]
  /\ trace' = [trace EXCEPT ![p] = Append(@, "File::create")]
  /\ UNCHANGED <<data_local_dir, dirs, op, arg, payload, yaml, ret, pre, prev,
                 fault, fin>>

\* file_create as it would be if the file were opened for appending: the
\* payload goes after what the file holds.
file_create_append(p) ==
  /\ pc[p] = "File::create"
  /\ exists' = TRUE
  /\ content' = content
  /\ off' = [off EXCEPT ![p] = Len(content)]
  /\ payload' = [payload EXCEPT ![p] = content \o @]
  /\ pc' = [pc EXCEPT ![p] = "write_all"]
  /\ after' = [after EXCEPT ![p] = {q \in Procs \ {p} : pc[q] = "done" /\ op[q] = "save"
                                                        /\ ret[q].tag = "Ok"}]
  /\ trace' = [trace EXCEPT ![p] = Append(@, "File::create")]
  /\ UNCHANGED <<data_local_dir, dirs, op, arg, yaml, ret, pre, prev, fault, fin>>

\* write(path, payload): File::create(path) creates or truncates the file.
file_create(p) ==
  /\ pc[p] = "File::create"
  /\ exists' = TRUE
  /\ content' = <<>>
  /\ off' = [off EXCEPT ![p] = 0]
  /\ pc' = [pc EXCEPT ![p] = "write_all"]
  /\ after' = [after EXCEPT ![p] = {q \in Procs \ {p} : pc[q] = "done" /\ op[q] = "save"
                                                        /\ ret[q].tag = "Ok"}]
  /\ trace' = [trace EXCEPT ![p] = Append(@, "File::create")]
  /\ UNCHANGED <<data_local_dir, dirs, op, arg, payload, yaml, ret, pre, prev,
                 fault, fin>>

\* File::create(path)? fails: the file is left as it was.
file_create_fails(p) ==
  /\ pc[p] = "File::create"
  /\ Return(p, Err("PermissionDenied", "write"))
  /\ fault' = [fault EXCEPT ![p] = "write"]
  /\ trace' = [trace EXCEPT ![p] = Append(@, "File::create")]
  /\ UNCHANGED <<data_local_dir, dirs, exists, content, op, arg, payload, off,
                 yaml, pre, prev, fin, after>>

\* The file after the lines chunk are written at offset o.
WriteAt(c, o, chunk) ==
  LET n == IF Len(c) > o + Len(chunk) THEN Len(c) ELSE o + Len(chunk)
  IN [i \in 1..n |->
        IF i > o /\ i <= o + Len(chunk) THEN chunk[i - o]
        ELSE IF i <= Len(c) THEN c[i] ELSE Hole]

\* write_all: one write of n lines of the payload at the file offset; the call
\* returns Ok(()) after the write that completes the payload.
write_all(p, n) ==
  /\ pc[p] = "write_all"
  /\ n \in 1..(Len(payload[p]) - off[p])
  /\ content' = WriteAt(content, off[p], SubSeq(payload[p], off[p] + 1, off[p] + n))
  /\ off' = [off EXCEPT ![p] = @ + n]
  /\ IF off[p] + n = Len(payload[p])
     THEN /\ Return(p, Ok(EmptyMap))
          /\ fin' = Append(SelectSeq(fin, LAMBDA q : q # p), p)
          /\ trace' = [trace EXCEPT ![p] = Append(@, "write_all")]
     ELSE /\ UNCHANGED <<pc, ret, fin, trace>>
  /\ UNCHANGED <<data_local_dir, dirs, exists, op, arg, payload, yaml, pre, prev,
                 fault, after>>

\* A write of write_all fails (the disk is full): the lines written so far stay.
write_all_fails(p) ==
  /\ pc[p] = "write_all"
  /\ Return(p, Err("StorageFull", "write"))
  /\ fault' = [fault EXCEPT ![p] = "write"]
  /\ trace' = [trace EXCEPT ![p] = Append(@, "write_all")]
  /\ UNCHANGED <<data_local_dir, dirs, exists, content, op, arg, payload, off,
                 yaml, pre, prev, fin, after>>

\* ------------------------------------------------------ the specifications
\* One owning process calls load() and save(), one call after the other.
Next ==
  \/ load(1)
  \/ load_read_fails(1)
  \/ \E s \in State : save(1, s)
  \/ create_dir_all(1)
  \/ \E j \in 0..Depth : create_dir_all_fails(1, j)
  \/ file_create(1)
  \/ file_create_fails(1)
  \/ \E n \in 1..(1 + 3 * Cardinality(Keys)) : write_all(1, n)
  \/ write_all_fails(1)

Spec == Init /\ [][Next]_vars

\* The same, where serde_yaml::to_string may return an error.
NextSer ==
  \/ Next
  \/ \E s \in State : save_to_string_fails(1, s)

SpecSer == Init /\ [][NextSer]_vars

\* Processes 1 and 2 each call save() once and process 3 calls load(), their
\* steps interleaved, with no failure of the environment.
InitRace ==
  /\ Init
  /\ data_local_dir
  /\ dirs \in {0, Depth}
  /\ content \in {<<>>, to_string(initial)}

\* The States the racing processes save: no image, image a, or images a and
\* b, last used at MaxSecs seconds.
RaceState ==
  {s \in State : /\ \A i \in DOMAIN s : s[i].d = <<MaxSecs, 0>>
                 /\ s # <<>> => s[1].k = "a"}

NextRace ==
  \/ \E p \in {1, 2} :
       \/ \E s \in RaceState : pc[p] = "idle" /\ save(p, s)
       \/ create_dir_all(p)
       \/ file_create(p)
       \/ \E n \in 1..(1 + 3 * Cardinality(Keys)) : write_all(p, n)
  \/ load(3)

SpecRace == InitRace /\ [][NextRace]_vars

\* ----------------------------------------------------------------- claims
Done(p) == pc[p] = "done"
FsNow == [dirs |-> dirs, exists |-> exists, content |-> content]

\* C1: a load() that follows a save(s) that returned Ok, and whose read the
\* environment does not fail, returns Ok with a State whose images map is
\* that of s, whatever the file held before the save.
RoundTrip ==
  \A p \in Procs :
    (Done(p) /\ op[p] = "load" /\ prev[p].saved /\ fault[p] = "none")
      => /\ ret[p].tag = "Ok"
         /\ ret[p].images = Images(prev[p].arg)

RoundTripWitness ==
  /\ Done(1) /\ op[1] = "load" /\ prev[1].saved
  /\ Len(prev[1].arg) = 2
  /\ ret[1] = Ok(Images(prev[1].arg))

Conforms(c) ==
  \/ c = <<ImagesEmpty>>
  \/ /\ Len(c) >= 4
     /\ c[1] = ImagesBlock
     /\ (Len(c) - 1) % 3 = 0
     /\ \A j \in 0..(((Len(c) - 1) \div 3) - 1) :
          /\ c[2 + 3 * j].t = "key:"
          /\ {c[3 + 3 * j].t, c[4 + 3 * j].t} = {"secs:", "nanos:"}

HasExtraField(c) == \E i \in DOMAIN c : c[i] = OtherField
HasImagesField(c) ==
  \E i \in DOMAIN c : c[i].t \in {"images:", "images: {}", "images: 5"}

\* C3: a load() that read the file returns Ok exactly when the text conforms
\* to the schema; text with an extra top-level field, without images or with
\* a wrongly shaped value yields the validation error and no State.
StrictValidation ==
  \A p \in Procs :
    (Done(p) /\ op[p] = "load" /\ Len(trace[p]) = 3)
      => /\ ret[p].tag = "Ok" <=> Conforms(yaml[p])
         /\ HasExtraField(yaml[p]) => ret[p] = Err("Other", "schema")
         /\ ~HasImagesField(yaml[p]) => ret[p] = Err("Other", "schema")
         /\ ret[p].tag # "Ok" => ret[p] = Err("Other", "schema")

StrictValidationWitness ==
  /\ Done(1) /\ op[1] = "load"
  /\ yaml[1] = <<ImagesEmpty, OtherField>>
  /\ ret[1] = Err("Other", "schema")

\* C4: load() returns an error of kind NotFound only when the path resolved
\* and no file was there, and always then unless the read itself failed;
\* every other error of load() has another kind.
AbsenceDistinct ==
  \A p \in Procs :
    (Done(p) /\ op[p] = "load")
      => /\ ret[p].kind = "NotFound"
              => data_local_dir /\ ~pre[p].exists /\ ret[p].tag = "Err"
         /\ (data_local_dir /\ ~pre[p].exists /\ fault[p] = "none")
              => ret[p] = Err("NotFound", "read_to_string")

AbsenceWitness ==
  /\ Done(1) /\ op[1] = "load" /\ ~pre[1].exists
  /\ ret[1].kind = "NotFound"

\* C5 as claimed: no call of load() or save() ends the process.
NeverPanics == \A p \in Procs : pc[p] # "panicked"

\* C5 as amended: location, I/O and validation errors are returned to the
\* caller as error values; only a serialization failure in save() is not
\* returned: the process panics.
ErrorsReturned ==
  \A p \in Procs :
    /\ pc[p] = "panicked" => op[p] = "save" /\ fault[p] = "to_string"
    /\ Done(p) =>
         /\ ret[p].tag \in {"Ok", "Err"}
         /\ fault[p] # "none" => ret[p].tag = "Err" /\ ret[p].cause = fault[p]
         /\ ~data_local_dir => ret[p] = Err("Other", "location")
         /\ (op[p] = "load" /\ Len(trace[p]) = 3 /\ ~Conforms(yaml[p]))
              => ret[p] = Err("Other", "schema")

ErrorsReturnedWitness ==
  /\ Done(1) /\ op[1] = "save" /\ fault[1] = "write"
  /\ ret[1] = Err("StorageFull", "write")

\* C6: without a local data directory load() and save() return the same
\* location error and leave every file and directory as it was, unread.
LocationUnavailable ==
  \A p \in Procs :
    (Done(p) /\ ~data_local_dir)
      => /\ ret[p] = Err("Other", "location")
         /\ FsNow = pre[p]
         /\ trace[p] = <<"path">>
         /\ yaml[p] = <<>>

LocationUnavailableWitness ==
  /\ ~data_local_dir /\ Done(1) /\ op[1] = "save" /\ arg[1] # <<>>
  /\ exists /\ ret[1] = Err("Other", "location")

\* C7: a save(s) that begins with an ancestor directory missing, and that the
\* environment does not fail, creates every ancestor, writes the file and
\* returns Ok, and a load() then succeeds.
DirectoryCreation ==
  \A p \in Procs :
    (Done(p) /\ op[p] = "save" /\ data_local_dir /\ pre[p].dirs < Depth
       /\ fault[p] = "none")
      => /\ ret[p].tag = "Ok"
         /\ dirs = Depth
         /\ exists /\ content = to_string(arg[p])
         /\ LoadResult(exists, content) = Ok(Images(arg[p]))

DirectoryCreationWitness ==
  /\ Done(1) /\ op[1] = "save" /\ pre[1].dirs = 0 /\ ret[1].tag = "Ok"
  /\ dirs = Depth /\ exists

\* C8: a save(s) that returns Ok right after a save(s) of the same State that
\* returned Ok leaves the file system as the first left it, so that a load()
\* returns the same after either.
SaveIdempotent ==
  \A p \in Procs :
    (Done(p) /\ op[p] = "save" /\ ret[p].tag = "Ok"
       /\ prev[p].saved /\ prev[p].arg = arg[p])
      => /\ FsNow = pre[p]
         /\ LoadResult(exists, content) = LoadResult(pre[p].exists, pre[p].content)

SaveIdempotentWitness ==
  /\ Done(1) /\ op[1] = "save" /\ ret[1].tag = "Ok"
  /\ prev[1].saved /\ prev[1].arg = arg[1] /\ Len(arg[1]) = 2

SaveSteps == <<"path", "to_string", "create_dir_all", "File::create", "write_all">>

====
